---- MODULE Spec2Model ----
(***************************************************************************)
(* A model of observer.py: the watchdog handler NewFileHander.on_modified, *)
(* the ExtensionMapper cache with its remote fallback, and the __main__    *)
(* block (configuration check, observer start, startup sweep).             *)
(*                                                                         *)
(* Python strings are sequences of one-character strings, so that          *)
(* lower(), split(), replace(), startswith(), os.path.join and re.match    *)
(* are computed the way the code computes them.  The filesystem is a       *)
(* function from canonical absolute paths to entities.                     *)
(***************************************************************************)
EXTENDS Integers, Sequences, FiniteSets, TLC

(***************************************************************************)
(* Bounds of the model.                                                    *)
(***************************************************************************)
\* files present in the source folder when the program starts
MaxInitFiles == 1
\* writes the outside world makes to the source folder while the program runs
MaxWrites == 1
\* notifications of one path waiting in the observer's queue
MaxPending == 1
\* settings given a value other than their default in one run of the program
MaxOptions == 2

(***************************************************************************)
(* Python str operations.                                                  *)
(***************************************************************************)
UpperLetters == <<"A","B","C","D","E","F","G","H","I","J","K","L","M",
                  "N","O","P","Q","R","S","T","U","V","W","X","Y","Z">>
LowerLetters == <<"a","b","c","d","e","f","g","h","i","j","k","l","m",
                  "n","o","p","q","r","s","t","u","v","w","x","y","z">>

LowerChar(c) ==
    IF \E i \in DOMAIN UpperLetters : UpperLetters[i] = c
    THEN LowerLetters[CHOOSE i \in DOMAIN UpperLetters : UpperLetters[i] = c]
    ELSE c

\* str.lower()
Lower(s) == [i \in DOMAIN s |-> LowerChar(s[i])]

\* positions of the character c in s
Positions(s, c) == {i \in DOMAIN s : s[i] = c}

Max(S) == CHOOSE x \in S : \A y \in S : y <= x

\* s.split(c)[-1]: the text after the last c, the whole of s when it holds no c
SplitLast(s, c) ==
    IF Positions(s, c) = {} THEN s
    ELSE SubSeq(s, Max(Positions(s, c)) + 1, Len(s))

\* s.replace(c, "")
Remove(s, c) == SelectSeq(s, LAMBDA x : x # c)

\* s.startswith(p)
StartsWith(s, p) == Len(p) <= Len(s) /\ SubSeq(s, 1, Len(p)) = p

\* s[i:i+len(lit)] == lit, i counted from 1
OccursAt(s, lit, i) ==
    i >= 1 /\ i + Len(lit) - 1 <= Len(s) /\ SubSeq(s, i, i + Len(lit) - 1) = lit

SEP == "/"
NL == "\n"

\* os.path.join(a, b) of posixpath
PathJoin(a, b) ==
    IF Len(b) > 0 /\ b[1] = SEP THEN b
    ELSE IF Len(a) = 0 \/ a[Len(a)] = SEP THEN a \o b
    ELSE a \o <<SEP>> \o b

(***************************************************************************)
(* re.match for the shapes of pattern the program configures: ".*LIT$" and *)
(* ".*LIT.*" with LIT a literal.  "." matches any character but a newline; *)
(* re.match anchors at the start only; "$" matches at the end of the       *)
(* string and before a newline that ends it.                               *)
(***************************************************************************)
NoNewline(s, n) == \A j \in 1..n : s[j] # NL

ReMatch(pattern, s) ==
    \E i \in 1..(Len(s) + 1) :
        /\ NoNewline(s, i - 1)
        /\ OccursAt(s, pattern.lit, i)
        /\ LET after == i + Len(pattern.lit)
           IN  pattern.atEnd =>
                   \/ after = Len(s) + 1
                   \/ (after = Len(s) /\ s[after] = NL)

(***************************************************************************)
(* The filesystem the os and pathlib calls act on.  fs maps a canonical    *)
(* absolute path to the entity there: a directory, a regular file (with    *)
(* the identity of its content), a symbolic link (with its target text) or *)
(* a special file.                                                         *)
(***************************************************************************)
Missing == [kind |-> "none"]
Dir == [kind |-> "dir"]
File(n) == [kind |-> "file", id |-> n]
Link(target) == [kind |-> "link", target |-> target]

\* symbolic links the kernel follows before it gives up on a path (ELOOP)
LinkDepth == 2

\* the path as the kernel resolves it: repeated and trailing separators dropped
Canon(p) ==
    LET sq[n \in 0..Len(p)] ==
            IF n = 0 THEN <<>>
            ELSE IF p[n] = SEP /\ n > 1 /\ p[n - 1] = SEP THEN sq[n - 1]
            ELSE Append(sq[n - 1], p[n])
        q == sq[Len(p)]
    IN  IF Len(q) > 1 /\ q[Len(q)] = SEP THEN SubSeq(q, 1, Len(q) - 1) ELSE q

\* the directory holding the canonical path q
Parent(q) ==
    LET last == Max(Positions(q, SEP))
    IN  IF last = 1 THEN <<SEP>> ELSE SubSeq(q, 1, last - 1)

\* the canonical path q and the directories above it, the root left out
Chain(q) == {SubSeq(q, 1, i) : i \in {j \in 2..Len(q) : j = Len(q) \/ q[j + 1] = SEP}}

\* the entity at path p itself, a link not followed (os.lstat)
Entity(f, p) == IF Canon(p) \in DOMAIN f THEN f[Canon(p)] ELSE Missing

\* the entity path p refers to, links followed (os.stat)
RECURSIVE Follow(_, _, _)
Follow(f, p, n) ==
    LET e == Entity(f, p)
    IN  IF e.kind # "link" THEN e
        ELSE IF n = 0 THEN Missing
        ELSE Follow(f, e.target, n - 1)

\* os.path.isfile(p)
IsFile(f, p) == Follow(f, p, LinkDepth).kind = "file"

\* os.path.isdir(p)
IsDir(f, p) == Follow(f, p, LinkDepth).kind = "dir"

\* os.listdir(d) joined to d: the paths of the entries of directory d
ListDir(f, d) == {q \in DOMAIN f : Len(q) > 1 /\ Parent(q) = Canon(d)}

\* os.walk(d): the paths of the non-directory entries below d
Walk(f, d) ==
    {q \in DOMAIN f : /\ Len(q) > Len(Canon(d)) + 1
                      /\ Canon(d) \in Chain(Parent(q)) \cup {<<SEP>>}
                      /\ ~IsDir(f, q)}

\* a mkdir that makes nothing
MkdirFsNothing(f, p) == f

\* pathlib.Path(p).mkdir(parents=True, exist_ok=True): a path of the chain that
\* exists and is no directory makes it raise; the directories missing are made
MkdirOk(f, p) == \A q \in Chain(Canon(p)) : q \in DOMAIN f => IsDir(f, q)

MkdirFs(f, p) ==
    [q \in DOMAIN f \cup Chain(Canon(p)) |-> IF q \in DOMAIN f THEN f[q] ELSE Dir]

\* os.rename(a, b): fails when a is gone, when the directory of b is missing,
\* or when b is a directory and a is none (the handler never calls it with a
\* directory at a, and the model lets that case fail too)
RenameOk(f, a, b) ==
    /\ Canon(a) \in DOMAIN f
    /\ IsDir(f, Parent(Canon(b)))
    /\ Canon(a) # Canon(b) /\ Canon(b) \in DOMAIN f =>
           /\ f[Canon(a)].kind # "dir"
           /\ f[Canon(b)].kind # "dir"

\* a successful rename moves the entity itself (a link is not followed), replaces
\* what was at b, and does nothing when a and b are the same path
RenameFs(f, a, b) ==
    IF Canon(a) = Canon(b) THEN f
    ELSE [q \in (DOMAIN f \ {Canon(a)}) \cup {Canon(b)} |->
             IF q = Canon(b) THEN f[Canon(a)] ELSE f[q]]

\* os.symlink(target, p): fails when anything is at p already
SymlinkOk(f, p) == Canon(p) \notin DOMAIN f /\ IsDir(f, Parent(Canon(p)))

SymlinkFs(f, target, p) ==
    [q \in DOMAIN f \cup {Canon(p)} |-> IF q = Canon(p) THEN Link(target) ELSE f[q]]

\* os.remove(p): fails when nothing is at p or a directory is; removes the
\* entity at p itself, whatever it is
RemoveOk(f, p) == Canon(p) \in DOMAIN f /\ f[Canon(p)].kind # "dir"

RemoveFs(f, p) == [q \in DOMAIN f \ {Canon(p)} |-> f[q]]

(***************************************************************************)
(* What __main__ configures.                                               *)
(***************************************************************************)
\* excluded = (r".*\.crdownload$", r".*\.temp$", r".*\.part.*")
excluded ==
    << [lit |-> <<".","c","r","d","o","w","n","l","o","a","d">>, atEnd |-> TRUE],
       [lit |-> <<".","t","e","m","p">>, atEnd |-> TRUE],
       [lit |-> <<".","p","a","r","t">>, atEnd |-> FALSE] >>

\* known_types = {"pdf": "PDF", "skp": "SketchUp", "dwg": "AutoCAD", "dxf": "AutoCAD"}
SeedTypes ==
    (<<"p","d","f">> :> <<"P","D","F">>)
    @@ (<<"s","k","p">> :> <<"S","k","e","t","c","h","U","p">>)
    @@ (<<"d","w","g">> :> <<"A","u","t","o","C","A","D">>)
    @@ (<<"d","x","f">> :> <<"A","u","t","o","C","A","D">>)

\* the value of --destination that stands for "the source folder"
SourceWord == <<"s","o","u","r","c","e">>

(***************************************************************************)
(* The inputs the model draws from.                                        *)
(***************************************************************************)
\* the source folder given on the command line
SourceDir == <<"/","s">>

\* the values given to --destination
Destinations == {SourceWord, <<"/","d">>, <<"/","s","/","d">>}

\* the default category given to ExtensionMapper
Defaults == {<<"o","t","h","e","r">>, <<"n",".","a">>}

\* names of the files that appear in the source folder
NameSeq ==
    << <<"r",".","P","D","F">>,
       <<"m",".","t","e","m","p">>,
       <<"a",".","t",".","x">>,
       <<"P","D","F">> >>
Names == {NameSeq[i] : i \in DOMAIN NameSeq}

\* the content a file of that name has when the program starts
InitialId(n) == CHOOSE i \in DOMAIN NameSeq : NameSeq[i] = n

\* the content the k-th write of the outside world creates
WrittenId(k) == Len(NameSeq) + k

\* the paths the observer is notified of: the files of the source folder
EventPaths == {PathJoin(SourceDir, n) : n \in Names}

\* what requests.get and re.findall can come to: an exception, or the list of
\* the texts the extraction pattern matches in the body
Labels == << <<"C"," ","F",".">>, <<" ",".">> >>
Responses ==
    { [error |-> TRUE, matches |-> <<>>],
      [error |-> FALSE, matches |-> <<>>],
      [error |-> FALSE, matches |-> <<Labels[1]>>],
      [error |-> FALSE, matches |-> <<Labels[2], Labels[1]>>] }

\* the orders in which a directory listing can return the set S
Orders(S) ==
    {q \in [1..Cardinality(S) -> S] : \A i, j \in DOMAIN q : q[i] = q[j] => i = j}

(***************************************************************************)
(* The state.                                                              *)
(***************************************************************************)
VARIABLES
    args,           \* the parsed command line
    default,        \* ExtensionMapper.default
    known_types,    \* ExtensionMapper.known_types, the cache
    fs,             \* the filesystem
    mainPc,         \* where the main thread is in __main__
    files_to_sort,  \* the files the sweep has still to feed to the handler
    observer,       \* the observer thread: "unstarted", "running" or "dead"
    pending,        \* notifications waiting in the observer's queue, per path
    pc,             \* where each thread is in on_modified
    src_path,       \* event.src_path of the call each thread is in
    category,       \* what extension_mapper.get returned to each thread
    outcome,        \* how each thread's last call of on_modified ended
    logged,         \* the origins log.error was called for
    remoteCalls,    \* history: what each requests.get came to, per extension
    returned,       \* history: the values get returned, per extension, in order
    writes          \* history: writes the outside world has made

vars == <<args, default, known_types, fs, mainPc, files_to_sort, observer, pending,
          pc, src_path, category, outcome, logged, remoteCalls, returned, writes>>

\* the threads that call on_modified: the main thread (the sweep) and the
\* observer thread
Threads == {"main", "obs"}

\* the function f with the value v at the key k
Put(f, k, v) == [x \in DOMAIN f \cup {k} |-> IF x = k THEN v ELSE f[x]]

\* the sequence a history keeps for the key k
History(h, k) == IF k \in DOMAIN h THEN h[k] ELSE <<>>

\* the settings that differ from the defaults of argparse (lines 126-151) and of
\* ExtensionMapper (line 92)
Changed(a, d) ==
    {k \in {"destination", "recursive", "delay", "ln_duration", "default"} :
        \/ k = "destination" /\ a.destination # SourceWord
        \/ k = "recursive" /\ a.recursive
        \/ k = "delay" /\ a.delay # 0
        \/ k = "ln_duration" /\ a.ln_duration # 0
        \/ k = "default" /\ d # <<"o","t","h","e","r">>}

InitialFs(S) ==
    [q \in {<<SEP>>, SourceDir} \cup {PathJoin(SourceDir, n) : n \in S} |->
        IF q \in {<<SEP>>, SourceDir} THEN Dir
        ELSE File(InitialId(SplitLast(q, SEP)))]

Init ==
    /\ args \in [source : {SourceDir}, destination : Destinations,
                 recursive : BOOLEAN, delay : {0, 1}, ln_duration : {0, 1}]
    /\ default \in Defaults
    /\ Cardinality(Changed(args, default)) <= MaxOptions
    /\ known_types = SeedTypes
    /\ \E S \in SUBSET Names : Cardinality(S) <= MaxInitFiles /\ fs = InitialFs(S)
    /\ mainPc = "start"
    /\ files_to_sort = <<>>
    /\ observer = "unstarted"
    /\ pending = [p \in EventPaths |-> 0]
    /\ pc = [t \in Threads |-> "idle"]
    /\ src_path = [t \in Threads |-> <<>>]
    /\ category = [t \in Threads |-> <<>>]
    /\ outcome = [t \in Threads |-> "none"]
    /\ logged = {}
    /\ remoteCalls = <<>>
    /\ returned = <<>>
    /\ writes = 0

(***************************************************************************)
(* __main__: the configuration check, the observer, the sweep.             *)
(***************************************************************************)
\* the condition under which __main__ raises its configuration exception
ConfigRejected(a) ==
    a.recursive /\ (a.destination = SourceWord \/ StartsWith(a.source, a.destination))

\* lines 155-199: reject the configuration or start the observer
Startup ==
    /\ mainPc = "start"
    /\ IF ConfigRejected(args)
       THEN /\ mainPc' = "fatal"
            /\ UNCHANGED <<args, observer>>
       ELSE /\ args' = [args EXCEPT !.destination =
                           IF @ = SourceWord THEN args.source ELSE @]
            /\ observer' = "running"
            /\ mainPc' = "list"
    /\ UNCHANGED <<default, known_types, fs, files_to_sort, pending, pc, src_path,
                   category, outcome, logged, remoteCalls, returned, writes>>

\* the files the sweep finds
SweepFiles(f, a) ==
    IF a.recursive THEN Walk(f, a.source)
    ELSE {q \in ListDir(f, a.source) : IsFile(f, q)}

\* lines 201-214: list the source folder
ListFiles ==
    /\ mainPc = "list"
    /\ files_to_sort' \in Orders(SweepFiles(fs, args))
    /\ mainPc' = "sweep"
    /\ UNCHANGED <<args, default, known_types, fs, observer, pending, pc, src_path,
                   category, outcome, logged, remoteCalls, returned, writes>>

\* whether thread t is running
Alive(t) == IF t = "main" THEN mainPc = "sweep" ELSE observer = "running"

\* lines 216-217: the sweep calls on_modified for the next file, or is over
SweepNext ==
    /\ mainPc = "sweep"
    /\ pc["main"] = "idle"
    /\ IF files_to_sort = <<>>
       THEN /\ mainPc' = "watch"
            /\ UNCHANGED <<files_to_sort, pc, src_path, outcome>>
       ELSE /\ src_path' = [src_path EXCEPT !["main"] = Head(files_to_sort)]
            /\ files_to_sort' = Tail(files_to_sort)
            /\ pc' = [pc EXCEPT !["main"] = "isfile"]
            /\ outcome' = [outcome EXCEPT !["main"] = "running"]
            /\ UNCHANGED mainPc
    /\ UNCHANGED <<args, default, known_types, fs, observer, pending, category,
                   logged, remoteCalls, returned, writes>>

\* the observer thread takes a notification off its queue and calls on_modified
Dispatch(p) ==
    /\ observer = "running"
    /\ pc["obs"] = "idle"
    /\ pending[p] > 0
    /\ pending' = [pending EXCEPT ![p] = @ - 1]
    /\ src_path' = [src_path EXCEPT !["obs"] = p]
    /\ pc' = [pc EXCEPT !["obs"] = "isfile"]
    /\ outcome' = [outcome EXCEPT !["obs"] = "running"]
    /\ UNCHANGED <<args, default, known_types, fs, mainPc, files_to_sort, observer,
                   category, logged, remoteCalls, returned, writes>>

\* the outside world writes the file named n in the source folder: the file is
\* created when it is not there, it takes the place of a link that is there (a
\* finished download renamed into place), and the running observer is notified
Notify(q, p) == IF q[p] < MaxPending THEN [q EXCEPT ![p] = @ + 1] ELSE q

FileWritten(n) ==
    LET p == PathJoin(SourceDir, n)
    IN  /\ mainPc \in {"list", "sweep", "watch"}
        /\ writes < MaxWrites
        /\ Entity(fs, p).kind \in {"none", "file", "link"}
        /\ writes' = writes + 1
        /\ fs' = IF Entity(fs, p).kind = "file" THEN fs
                 ELSE [q \in DOMAIN fs \cup {p} |->
                          IF q = p THEN File(WrittenId(writes + 1)) ELSE fs[q]]
        /\ pending' = IF observer = "running"
                      THEN Notify(pending, p)
                      ELSE pending
        /\ UNCHANGED <<args, default, known_types, mainPc, files_to_sort, observer,
                       pc, src_path, category, outcome, logged, remoteCalls, returned>>

(***************************************************************************)
(* ExtensionMapper.                                                        *)
(***************************************************************************)
\* get without the lower(): the extension in the case the file name has it
ExtensionCaseKept(origin) == SplitLast(origin, ".")

\* s.split(c, 1)[-1]: the text after the first c, the whole of s when it holds no c
SplitFirst(s, c) ==
    IF Positions(s, c) = {} THEN s
    ELSE SubSeq(s, (CHOOSE i \in Positions(s, c) : \A j \in Positions(s, c) : i <= j) + 1,
                Len(s))

\* get with the text after the first period as the extension
ExtensionFirstDot(origin) == SplitFirst(Lower(origin), ".")

\* lines 113-114: origin.lower().split(".")[-1]
Extension(origin) == SplitLast(Lower(origin), ".")

\* download_info taking the last match of findall instead of the first
ResultLastMatch(resp, dflt) ==
    LET result == IF resp.error \/ resp.matches = <<>> THEN dflt
                  ELSE resp.matches[Len(resp.matches)]
    IN  Remove(Remove(result, " "), ".")

\* lines 102-108: the first match, or the default when the request raised or
\* nothing matched, with spaces and periods taken out
Result(resp, dflt) ==
    LET result == IF resp.error \/ resp.matches = <<>> THEN dflt ELSE resp.matches[1]
    IN  Remove(Remove(result, " "), ".")

\* download_info without the store: the cache is left as it was
StoreNothing(kt, extension, result) == kt

\* line 109: self.known_types[extension] = result
Store(kt, extension, result) == Put(kt, extension, result)

(***************************************************************************)
(* NewFileHander.on_modified, a step for each call that reads or changes   *)
(* shared state.                                                           *)
(***************************************************************************)
\* line 55: event.src_path.split(os.path.sep)[-1]
Origin(t) == SplitLast(src_path[t], SEP)

\* line 57: any(re.match(pattern, origin) for pattern in self.excluded)
IsExcluded(origin) == \E i \in DOMAIN excluded : ReMatch(excluded[i], origin)

\* lines 65-67: os.path.join(self.destination_folder, <what get returned>)
DestinationFolder(t) == PathJoin(args.destination, category[t])

\* line 75: os.path.join(destination_folder, origin)
Target(t) == PathJoin(DestinationFolder(t), Origin(t))

\* on_modified returns
Return(t, how) ==
    /\ pc' = [pc EXCEPT ![t] = "idle"]
    /\ outcome' = [outcome EXCEPT ![t] = how]

\* an exception leaves on_modified: in the main thread it ends the sweep and
\* the process with it; in the observer thread it ends that thread
Raise(t) ==
    /\ pc' = [pc EXCEPT ![t] = "idle"]
    /\ outcome' = [outcome EXCEPT ![t] = "raised"]
    /\ observer' = "dead"
    /\ mainPc' = IF t = "main" THEN "crashed" ELSE mainPc

\* lines 52-53
IsFileCheck(t) ==
    /\ Alive(t)
    /\ pc[t] = "isfile"
    /\ IF IsFile(fs, src_path[t])
       THEN pc' = [pc EXCEPT ![t] = "filter"] /\ UNCHANGED outcome
       ELSE Return(t, "notfile")
    /\ UNCHANGED <<args, default, known_types, fs, mainPc, files_to_sort, observer,
                   pending, src_path, category, logged, remoteCalls, returned, writes>>

\* on_modified without the exclusion test: every regular file goes on
FilterKeepsAll(t) ==
    /\ Alive(t)
    /\ pc[t] = "filter"
    /\ pc' = [pc EXCEPT ![t] = IF args.delay # 0 THEN "delay" ELSE "get"]
    /\ UNCHANGED <<args, default, known_types, fs, mainPc, files_to_sort, observer,
                   pending, src_path, category, outcome, logged, remoteCalls,
                   returned, writes>>

\* on_modified without the pause of lines 60-61: the filter goes on to get
FilterNoDelay(t) ==
    /\ Alive(t)
    /\ pc[t] = "filter"
    /\ IF IsExcluded(Origin(t))
       THEN Return(t, "excluded")
       ELSE pc' = [pc EXCEPT ![t] = "get"] /\ UNCHANGED outcome
    /\ UNCHANGED <<args, default, known_types, fs, mainPc, files_to_sort, observer,
                   pending, src_path, category, logged, remoteCalls, returned, writes>>

\* lines 55-58
Filter(t) ==
    /\ Alive(t)
    /\ pc[t] = "filter"
    /\ IF IsExcluded(Origin(t))
       THEN Return(t, "excluded")
       ELSE /\ pc' = [pc EXCEPT ![t] = IF args.delay # 0 THEN "delay" ELSE "get"]
            /\ UNCHANGED outcome
    /\ UNCHANGED <<args, default, known_types, fs, mainPc, files_to_sort, observer,
                   pending, src_path, category, logged, remoteCalls, returned, writes>>

\* lines 60-61: time.sleep(self.delay)
Delay(t) ==
    /\ Alive(t)
    /\ pc[t] = "delay"
    /\ pc' = [pc EXCEPT ![t] = "get"]
    /\ UNCHANGED <<args, default, known_types, fs, mainPc, files_to_sort, observer,
                   pending, src_path, category, outcome, logged, remoteCalls,
                   returned, writes>>

\* get without the test of the cache: every call goes to download_info
GetNoCache(t) ==
    /\ Alive(t)
    /\ pc[t] = "get"
    /\ pc' = [pc EXCEPT ![t] = "download"]
    /\ UNCHANGED <<args, default, known_types, fs, mainPc, files_to_sort, observer,
                   pending, src_path, category, outcome, logged, remoteCalls,
                   returned, writes>>

\* lines 112-119: get looks the extension up; a hit is returned, a miss goes
\* to download_info
Get(t) ==
    LET extension == Extension(Origin(t))
    IN  /\ Alive(t)
        /\ pc[t] = "get"
        /\ IF extension \in DOMAIN known_types
           THEN /\ category' = [category EXCEPT ![t] = known_types[extension]]
                /\ returned' = Put(returned, extension,
                                    Append(History(returned, extension),
                                           known_types[extension]))
                /\ pc' = [pc EXCEPT ![t] = "mkdir"]
           ELSE /\ pc' = [pc EXCEPT ![t] = "download"]
                /\ UNCHANGED <<category, returned>>
        /\ UNCHANGED <<args, default, known_types, fs, mainPc, files_to_sort,
                       observer, pending, src_path, outcome, logged, remoteCalls,
                       writes>>

\* lines 101-110: download_info asks the site, stores the result and returns it
DownloadInfo(t) ==
    LET extension == Extension(Origin(t))
    IN  /\ Alive(t)
        /\ pc[t] = "download"
        /\ \E resp \in Responses :
              LET result == Result(resp, default)
              IN  /\ known_types' = Store(known_types, extension, result)
                  /\ category' = [category EXCEPT ![t] = result]
                  /\ returned' = Put(returned, extension,
                                      Append(History(returned, extension), result))
                  /\ remoteCalls' = Put(remoteCalls, extension,
                                         Append(History(remoteCalls, extension), resp))
        /\ pc' = [pc EXCEPT ![t] = "mkdir"]
        /\ UNCHANGED <<args, default, fs, mainPc, files_to_sort, observer, pending,
                       src_path, outcome, logged, writes>>

\* line 71: pathlib.Path(destination_folder).mkdir(parents=True, exist_ok=True)
Mkdir(t) ==
    /\ Alive(t)
    /\ pc[t] = "mkdir"
    /\ IF MkdirOk(fs, DestinationFolder(t))
       THEN /\ fs' = MkdirFs(fs, DestinationFolder(t))
            /\ pc' = [pc EXCEPT ![t] = "rename"]
            /\ UNCHANGED <<outcome, observer, mainPc>>
       ELSE Raise(t) /\ UNCHANGED fs
    /\ UNCHANGED <<args, default, known_types, files_to_sort, pending, src_path,
                   category, logged, remoteCalls, returned, writes>>

\* on_modified without the return of line 79: a failed move is logged and the
\* call goes on to the link
RenameNoReturn(t) ==
    /\ Alive(t)
    /\ pc[t] = "rename"
    /\ \E allowed \in BOOLEAN :
          /\ IF allowed /\ RenameOk(fs, src_path[t], Target(t))
             THEN fs' = RenameFs(fs, src_path[t], Target(t)) /\ UNCHANGED logged
             ELSE logged' = logged \cup {Origin(t)} /\ UNCHANGED fs
          /\ IF args.ln_duration # 0
             THEN pc' = [pc EXCEPT ![t] = "symlink"] /\ UNCHANGED outcome
             ELSE Return(t, "moved")
    /\ UNCHANGED <<args, default, known_types, mainPc, files_to_sort, observer,
                   pending, src_path, category, remoteCalls, returned, writes>>

\* lines 73-79: os.rename, which can also fail for a reason outside the model's
\* filesystem (permissions, another device); a failure is logged and ends the call
Rename(t) ==
    /\ Alive(t)
    /\ pc[t] = "rename"
    /\ \E allowed \in BOOLEAN :
          IF allowed /\ RenameOk(fs, src_path[t], Target(t))
          THEN /\ fs' = RenameFs(fs, src_path[t], Target(t))
               /\ IF args.ln_duration # 0
                  THEN pc' = [pc EXCEPT ![t] = "symlink"] /\ UNCHANGED outcome
                  ELSE Return(t, "moved")
               /\ UNCHANGED logged
          ELSE /\ logged' = logged \cup {Origin(t)}
               /\ Return(t, "failed")
               /\ UNCHANGED fs
    /\ UNCHANGED <<args, default, known_types, mainPc, files_to_sort, observer,
                   pending, src_path, category, remoteCalls, returned, writes>>

\* lines 81-85: os.symlink(os.path.join(destination_folder, origin), event.src_path)
Symlink(t) ==
    /\ Alive(t)
    /\ pc[t] = "symlink"
    /\ IF SymlinkOk(fs, src_path[t])
       THEN /\ fs' = SymlinkFs(fs, Target(t), src_path[t])
            /\ pc' = [pc EXCEPT ![t] = "sleep"]
            /\ UNCHANGED <<outcome, observer, mainPc>>
       ELSE Raise(t) /\ UNCHANGED fs
    /\ UNCHANGED <<args, default, known_types, files_to_sort, pending, src_path,
                   category, logged, remoteCalls, returned, writes>>

\* line 86: time.sleep(self.ln_duration)
Sleep(t) ==
    /\ Alive(t)
    /\ pc[t] = "sleep"
    /\ pc' = [pc EXCEPT ![t] = "remove"]
    /\ UNCHANGED <<args, default, known_types, fs, mainPc, files_to_sort, observer,
                   pending, src_path, category, outcome, logged, remoteCalls,
                   returned, writes>>

\* lines 87-88: os.remove(event.src_path)
RemoveLink(t) ==
    /\ Alive(t)
    /\ pc[t] = "remove"
    /\ IF RemoveOk(fs, src_path[t])
       THEN /\ fs' = RemoveFs(fs, src_path[t])
            /\ Return(t, "moved")
            /\ UNCHANGED <<observer, mainPc>>
       ELSE Raise(t) /\ UNCHANGED fs
    /\ UNCHANGED <<args, default, known_types, files_to_sort, pending, src_path,
                   category, logged, remoteCalls, returned, writes>>

(***************************************************************************)
(* The program: the main thread and the observer thread run concurrently,  *)
(* and the outside world writes files at any time.                         *)
(***************************************************************************)
Next ==
    \/ Startup
    \/ ListFiles
    \/ SweepNext
    \/ \E p \in EventPaths : Dispatch(p)
    \/ \E n \in Names : FileWritten(n)
    \/ \E t \in Threads : IsFileCheck(t)
    \/ \E t \in Threads : Filter(t)
    \/ \E t \in Threads : Delay(t)
    \/ \E t \in Threads : Get(t)
    \/ \E t \in Threads : DownloadInfo(t)
    \/ \E t \in Threads : Mkdir(t)
    \/ \E t \in Threads : Rename(t)
    \/ \E t \in Threads : Symlink(t)
    \/ \E t \in Threads : Sleep(t)
    \/ \E t \in Threads : RemoveLink(t)

Spec == Init /\ [][Next]_vars

(***************************************************************************)
(* The program when its calls of on_modified do not overlap: the observer  *)
(* thread delivers no notification while the sweep is inside the handler,  *)
(* the sweep does not go on while the observer thread is, and the outside  *)
(* world writes between calls only.                                        *)
(***************************************************************************)
Quiet == \A t \in Threads : pc[t] = "idle"

NextSeq ==
    \/ Startup
    \/ ListFiles
    \/ Quiet /\ SweepNext
    \/ \E p \in EventPaths : Quiet /\ Dispatch(p)
    \/ \E n \in Names : Quiet /\ FileWritten(n)
    \/ \E t \in Threads : IsFileCheck(t)
    \/ \E t \in Threads : Filter(t)
    \/ \E t \in Threads : Delay(t)
    \/ \E t \in Threads : Get(t)
    \/ \E t \in Threads : DownloadInfo(t)
    \/ \E t \in Threads : Mkdir(t)
    \/ \E t \in Threads : Rename(t)
    \/ \E t \in Threads : Symlink(t)
    \/ \E t \in Threads : Sleep(t)
    \/ \E t \in Threads : RemoveLink(t)

SpecSeq == Init /\ [][NextSeq]_vars

(***************************************************************************)
(* The claims.                                                             *)
(***************************************************************************)
\* the stages of on_modified that come after extension_mapper.get returned
AfterGet == {"mkdir", "rename", "symlink", "sleep", "remove"}

\* the text of a file name after its last period, lowercased
LowerSuffix(n) == Lower(SplitLast(n, "."))

\* C1: when calls of get do not overlap, an extension that is not in the seed
\* table costs exactly one remote call, made by the first get of it, and every
\* get of it returns the value the first one returned.
C1_OneRemoteCall ==
    \A e \in DOMAIN returned \cup DOMAIN remoteCalls :
        e \notin DOMAIN SeedTypes =>
            /\ Len(History(remoteCalls, e)) = 1
            /\ \A i \in DOMAIN History(returned, e) : returned[e][i] = returned[e][1]

\* an unseeded extension has been resolved twice
C1_Witness ==
    \E e \in DOMAIN returned : e \notin DOMAIN SeedTypes /\ Len(returned[e]) >= 2

\* C2: a file name whose extension, lowercased, is a key of the seed table is
\* given the seeded category, and no remote call is ever made for a seeded
\* extension.
C2_SeededNoRemote ==
    /\ \A e \in DOMAIN SeedTypes : History(remoteCalls, e) = <<>>
    /\ \A t \in Threads :
           pc[t] \in AfterGet /\ LowerSuffix(Origin(t)) \in DOMAIN SeedTypes =>
               category[t] = SeedTypes[LowerSuffix(Origin(t))]

\* r.PDF has been resolved to the category PDF
C2_Witness ==
    \E t \in Threads :
        /\ pc[t] \in AfterGet
        /\ Origin(t) = <<"r",".","P","D","F">>
        /\ category[t] = <<"P","D","F">>

\* the remote call came to nothing: the request raised, or nothing matched
Failed(resp) == resp.error \/ resp.matches = <<>>

\* C3: when calls of get do not overlap and the remote call for an extension
\* fails, every get of that extension returns the configured default, and no
\* second remote call is made for it.
C3_FailureGivesDefault ==
    \A e \in DOMAIN remoteCalls :
        Failed(remoteCalls[e][1]) =>
            /\ Len(remoteCalls[e]) = 1
            /\ \A i \in DOMAIN History(returned, e) : returned[e][i] = default

\* C4: a call of on_modified for a base name that an exclusion pattern matches
\* never gets past the filter: it calls neither the extension mapper nor mkdir
\* nor rename, and it ends as excluded or, the path being no file, as not a file.
C4_ExcludedNeverProcessed ==
    \A t \in Threads :
        src_path[t] # <<>> /\ IsExcluded(Origin(t)) =>
            /\ pc[t] \in {"idle", "isfile", "filter"}
            /\ outcome[t] \in {"running", "notfile", "excluded"}

\* a call for m.temp has returned at the filter and the file is where it was
C4_Witness ==
    \E t \in Threads :
        /\ outcome[t] = "excluded"
        /\ Origin(t) = <<"m",".","t","e","m","p">>
        /\ Entity(fs, src_path[t]).kind = "file"

\* thread t takes the step of on_modified that leaves the stage named
Leaves(t, stage) == pc[t] = stage /\ pc'[t] # stage

\* C5: the step in which rename succeeds leaves nothing at the source path, the
\* regular file at root/category/baseName, and root/category a directory.
C5_MovedFileAtTarget ==
    [][\A t \in Threads :
          Leaves(t, "rename") /\ outcome'[t] # "failed" =>
              /\ Entity(fs', src_path[t]).kind = "none"
              /\ Entity(fs', Target(t)).kind = "file"
              /\ IsDir(fs', DestinationFolder(t))]_vars

\* C6: with a link duration, the step after a successful move leaves at the
\* source path a link to the new path, and the step after the pause leaves
\* nothing at the source path.
C6_LinkThenNothing ==
    [][\A t \in Threads :
          /\ Leaves(t, "symlink") => Entity(fs', src_path[t]) = Link(Target(t))
          /\ Leaves(t, "remove") => Entity(fs', src_path[t]).kind = "none"]_vars

\* C7: the step of rename either moves the file, or, the move having failed,
\* changes nothing in the filesystem, logs the failure and returns: the call is
\* over, no exception has left it and no link is made; and a move the
\* filesystem refuses always takes the second course.
C7_FailedMoveReturns ==
    [][\A t \in Threads :
          Leaves(t, "rename") =>
              \/ /\ RenameOk(fs, src_path[t], Target(t))
                 /\ fs' = RenameFs(fs, src_path[t], Target(t))
                 /\ logged' = logged
                 /\ outcome'[t] \in {"running", "moved"}
              \/ /\ fs' = fs
                 /\ logged' = logged \cup {Origin(t)}
                 /\ pc'[t] = "idle"
                 /\ outcome'[t] = "failed"
                 /\ mainPc' = mainPc /\ observer' = observer]_vars

\* a move has failed under a link duration, the call has returned and the
\* source file is still at its path
C7_Witness ==
    \E t \in Threads :
        /\ outcome[t] = "failed"
        /\ args.ln_duration # 0
        /\ Origin(t) \in logged
        /\ Entity(fs, src_path[t]).kind = "file"

\* C8: no error in handling one event ends the sweep or the observer thread.
C8_LoopsSurvive == mainPc # "crashed" /\ observer # "dead"

\* the destination d is the source folder s or a folder below it
SameOrBelow(d, s) ==
    \/ d = SourceWord
    \/ Canon(d) = Canon(s)
    \/ StartsWith(Canon(d), Canon(s) \o <<SEP>>)

\* C9: with --recursive, a destination that is the source folder or below it
\* is rejected at startup: the program never gets past the check.
C9_LoopConfigRejected ==
    args.recursive /\ SameOrBelow(args.destination, args.source) =>
        mainPc \in {"start", "fatal"} /\ observer = "unstarted"

\* C10: a call whose source path holds no regular file, the file having been
\* moved by an earlier call or never having been one, returns at the check.
C10_NotFileIgnored ==
    [][\A t \in Threads :
          Leaves(t, "isfile") /\ Entity(fs, src_path[t]).kind # "file" =>
              /\ pc'[t] = "idle"
              /\ outcome'[t] = "notfile"]_vars

\* C11: whatever the overlap of the observer thread and the sweep, an
\* extension that is not in the seed table costs at most one remote call, every
\* get of it returns the same category, and the cache holds that category.
C11_OneLookupUnderOverlap ==
    \A e \in DOMAIN remoteCalls :
        e \notin DOMAIN SeedTypes =>
            /\ Len(remoteCalls[e]) <= 1
            /\ \A i \in DOMAIN History(returned, e) :
                   returned[e][i] = returned[e][1] /\ known_types[e] = returned[e][i]

C13_DirectoryBeforeMove ==
    [][\A t \in Threads :
          /\ Leaves(t, "rename") => IsDir(fs, DestinationFolder(t))
          /\ Leaves(t, "mkdir") /\ pc'[t] = "rename" => IsDir(fs', DestinationFolder(t))
          /\ Leaves(t, "mkdir") /\ IsDir(fs, DestinationFolder(t)) =>
                 fs' = fs /\ pc'[t] = "rename"]_vars

\* a call is about to rename into a category folder that its mkdir made
C13_Witness ==
    \E t \in Threads :
        /\ pc[t] = "rename"
        /\ category[t] # <<>>
        /\ Entity(fs, DestinationFolder(t)) = Dir
        /\ Entity(fs, src_path[t]).kind = "file"
        /\ Canon(DestinationFolder(t)) \notin {<<SEP>>, SourceDir}

\* the keys the extension mapper has been asked for, has looked up remotely or
\* holds in its cache
KeysUsed == DOMAIN returned \cup DOMAIN remoteCalls \cup DOMAIN known_types

\* C14 as the specification states it: the key a call of get uses is the
\* lowercased base name's text after its first period.
C14_FirstDotKey ==
    \A t \in Threads :
        pc[t] \in AfterGet => SplitFirst(Lower(Origin(t)), ".") \in DOMAIN returned

\* C14: the key a call of get uses is the lowercased text after the last
\* period of the base name, the whole lowercased name when it has none: once get
\* has returned, that key is in the cache and in what get answered, and no key
\* holds a period or an uppercase letter.
C14_LastDotKey ==
    /\ \A t \in Threads :
           pc[t] \in AfterGet =>
               /\ LowerSuffix(Origin(t)) \in DOMAIN returned
               /\ LowerSuffix(Origin(t)) \in DOMAIN known_types
    /\ \A k \in KeysUsed : Positions(k, ".") = {} /\ Lower(k) = k

\* get has returned for a.t.x: the cache has the key x and no key t.x
C14_Witness ==
    \E t \in Threads :
        /\ pc[t] \in AfterGet
        /\ Origin(t) = <<"a",".","t",".","x">>
        /\ <<"x">> \in DOMAIN known_types
        /\ <<"t",".","x">> \notin KeysUsed

\* the stages a call of on_modified can go to from the stage it is in, in the
\* state it is in: "idle" is the call over (returned or raised)
StagesAfter(t) ==
    CASE pc[t] = "idle" -> {"isfile"}
      [] pc[t] = "isfile" -> IF IsFile(fs, src_path[t]) THEN {"filter"} ELSE {"idle"}
      [] pc[t] = "filter" -> IF IsExcluded(Origin(t)) THEN {"idle"}
                             ELSE IF args.delay # 0 THEN {"delay"}
                             ELSE {"get"}
      [] pc[t] = "delay" -> {"get"}
      [] pc[t] = "get" -> {"download", "mkdir"}
      [] pc[t] = "download" -> {"mkdir"}
      [] pc[t] = "mkdir" -> {"rename", "idle"}
      [] pc[t] = "rename" -> IF args.ln_duration # 0 THEN {"symlink", "idle"} ELSE {"idle"}
      [] pc[t] = "symlink" -> {"sleep", "idle"}
      [] pc[t] = "sleep" -> {"remove"}
      [] pc[t] = "remove" -> {"idle"}

\* C15: a call of on_modified goes through its stages in the one order: the
\* check for a regular file, the filter, the delay when one is set, get (with
\* download_info on a miss), mkdir, rename, and with a link duration symlink,
\* the pause and remove; the delay is entered from the filter only, by a call
\* for a name that is not excluded, and get is entered after the delay whenever
\* a delay is set.
C15_StagesInOrder ==
    [][\A t \in Threads :
          pc'[t] # pc[t] =>
              /\ pc'[t] \in StagesAfter(t)
              /\ pc'[t] = "delay" =>
                     pc[t] = "filter" /\ ~IsExcluded(Origin(t)) /\ args.delay # 0
              /\ pc'[t] = "get" =>
                     pc[t] = (IF args.delay # 0 THEN "delay" ELSE "filter")
              /\ pc'[t] = "symlink" =>
                     args.ln_duration # 0 /\ Entity(fs', Target(t)) # Missing]_vars

\* with a delay and a link duration set, a call has come to its last stage
C15_Witness ==
    \E t \in Threads :
        /\ pc[t] = "remove"
        /\ args.delay # 0
        /\ args.ln_duration # 0
        /\ Len(History(returned, Extension(Origin(t)))) > 0

\* the file that was in the source folder under the i-th name when the program
\* started is where the sweep is to put it: not at its first path, and, as long
\* as it exists, at root/category/name for the category the cache has for it
SweptToCategory(i) ==
    LET n == NameSeq[i]
        e == LowerSuffix(n)
    IN  /\ Entity(fs, PathJoin(SourceDir, n)) # File(InitialId(n))
        /\ (\E q \in DOMAIN fs : fs[q] = File(InitialId(n))) =>
               /\ e \in DOMAIN known_types
               /\ Entity(fs, PathJoin(PathJoin(args.destination, known_types[e]), n))
                      = File(InitialId(n))

\* C16: the sweep comes to its end, no exception ending it, and when it has
\* and no move has failed, every file that was in the source folder at the
\* start and is not excluded is at root/category/name and not at its first path.
C16_SweepSortsAll ==
    /\ mainPc # "crashed"
    /\ mainPc = "watch" /\ logged = {} =>
           \A i \in DOMAIN NameSeq : ~IsExcluded(NameSeq[i]) => SweptToCategory(i)

\* the text s with its spaces and periods left out
Normalized(s) == SelectSeq(s, LAMBDA c : c \notin {" ", "."})

\* the last element of a history
Latest(h) == h[Len(h)]

\* C17: the step of download_info whose request found a match stores in the
\* cache, and returns, the first match with its spaces and periods left out;
\* and no value download_info has written holds a space or a period.
C17_StoredLabelNormalized ==
    [][\A t \in Threads :
          Leaves(t, "download") =>
              LET e == Extension(Origin(t))
                  resp == Latest(remoteCalls'[e])
              IN  /\ known_types'[e] = category'[t]
                  /\ Latest(returned'[e]) = category'[t]
                  /\ Positions(known_types'[e], " ") = {}
                  /\ Positions(known_types'[e], ".") = {}
                  /\ ~Failed(resp) => category'[t] = Normalized(resp.matches[1])]_vars

\* the request for an extension found the label "C F." first, and the cache
\* holds CF for it
C17_Witness ==
    \E e \in DOMAIN remoteCalls :
        /\ ~Failed(Latest(remoteCalls[e]))
        /\ Latest(remoteCalls[e]).matches[1] = Labels[1]
        /\ known_types[e] = <<"C","F">>
        /\ <<"C","F">> \in {returned[e][i] : i \in DOMAIN returned[e]}

\* C18: whatever the overlap of the observer thread and the sweep, what a
\* successful rename moves is a regular file and never a link: after the step
\* the entity at root/category/name is a regular file.
C18_NeverMovesLink ==
    [][\A t \in Threads :
          Leaves(t, "rename") /\ outcome'[t] # "failed" =>
              /\ Entity(fs, src_path[t]).kind # "link"
              /\ Entity(fs', Target(t)).kind # "link"]_vars

\* C19: the step of os.remove at the end of the pause removes nothing but the
\* link this call made: when something else is at the source path by then, a
\* regular file the outside world put there among it, the step leaves it there.
C19_RemovesOnlyOwnLink ==
    [][\A t \in Threads :
          Leaves(t, "remove") /\ Entity(fs, src_path[t]) # Link(Target(t)) =>
              Entity(fs', src_path[t]) = Entity(fs, src_path[t])]_vars

\* C20: a call that comes to its move has a category that is not empty, a
\* destination folder that is not the destination root, and a target that is
\* not the path the file is at.
C20_ProperCategoryFolder ==
    \A t \in Threads :
        pc[t] = "rename" =>
            /\ category[t] # <<>>
            /\ Canon(DestinationFolder(t)) # Canon(args.destination)
            /\ Canon(Target(t)) # Canon(src_path[t])

====
